------------------------------ MODULE Checkout ------------------------------
(***************************************************************************)
(* How a learner's carts come to be: the requests that create a cart       *)
(* (create_cart_resolving_inflight_payments, under CheckoutView and        *)
(* CartView), those that hand one off (InitiatePaymentView), and the       *)
(* payments that end them meanwhile.                                       *)
(*                                                                         *)
(* A learner may have several of these requests under way at once, in      *)
(* different tabs.  Each statement commits by itself, so a request acts on *)
(* what it read, and only Cart.change_status compares before it writes.    *)
(* A payment is one step here: Settlement has its steps.                   *)
(***************************************************************************)
EXTENDS CartStatus, Naturals

CONSTANTS
  Carts,     \* the carts of one learner, each named by the request making it
  Items,     \* catalogue items
  NoItem,
  Wanted,    \* the item the request that makes a cart asks for
  CourseOf,  \* what an item holds: a course, or the bundle itself
  Clicks,    \* the hand-off requests that may run at the same time
  Mortal     \* the requests, by their carts, whose process may die

ASSUME CheckoutAssumption ==
  /\ Wanted \in [Carts -> Items]
  /\ Items \subseteq DOMAIN CourseOf
  /\ NoItem \notin Items
  /\ Mortal \subseteq Carts

VARIABLES
  status,    \* Cart.status, or "none" before the cart is created
  item,      \* the item in the cart, or NoItem while it has none
  checkout,  \* the requests making the carts
  click,     \* the hand-off requests
  called,    \* how many times a gateway was called for a cart
  replaced,  \* the carts a newer cart replaced
  untouched  \* the carts pending or in the way when a request began, and not
             \* changed since

vars == <<status, item, checkout, click, called, replaced, untouched>>

\* at is what the request does next: validate the item, in two queries, list
\* the pending carts, cancel them, create its own, put the item in it; or
\* resolve the payment in flight it found.
Checkouts ==
  [at: {"idle", "validating", "blocking", "listing", "cancelling", "filling", "resolving", "answered"},
   pending: SUBSET Carts, inflight: SUBSET Carts, seen: Statuses]

ClickStates == [at: {"idle", "moving", "calling"}, carts: SUBSET Carts, seen: Statuses]

IdleClick == [at |-> "idle", carts |-> {}, seen |-> "pending"]

Init ==
  /\ status = [c \in Carts |-> "none"]
  /\ item = [c \in Carts |-> NoItem]
  /\ checkout = [r \in Carts |->
       [at |-> "idle", pending |-> {}, inflight |-> {}, seen |-> "pending"]]
  /\ click = [h \in Clicks |-> IdleClick]
  /\ called = [c \in Carts |-> 0]
  /\ replaced = {}
  /\ untouched = [r \in Carts |-> {}]

-----------------------------------------------------------------------------
\* Slip: the stored status is not compared.
MovesUncompared(c, seen, new) == CanMove(seen, new)

\* Cart.change_status is refused when the move is not in the table, or the
\* stored status is no longer the one the caller read.
Moves(c, seen, new) == CanMove(seen, new) /\ status[c] = seen

Touch(c) == untouched' = [r \in Carts |-> untouched[r] \ {c}]

ChangeStatus(c, new) == status' = [status EXCEPT ![c] = new] /\ Touch(c)

ChangeStatusIfUnmoved(c, seen, new) ==
  IF Moves(c, seen, new) THEN ChangeStatus(c, new) ELSE UNCHANGED <<status, untouched>>

Goto(r, at) == checkout' = [checkout EXCEPT ![r] =
  [at |-> at, pending |-> {}, inflight |-> {}, seen |-> "pending"]]

\* What the request had read is dropped with it.
Answer(r) == Goto(r, "answered") /\ untouched' = [untouched EXCEPT ![r] = {}]

\* A cart holds an item when it holds the same bundle, or the same course.
Holds(c, i) == item[c] # NoItem /\ CourseOf[item[c]] = CourseOf[i]

\* Slip: an unreconciled cart is not listed.
BlockersKnown(i) ==
  {c \in Carts : Holds(c, i) /\ status[c] \in InFlight \cup {"paid"}}

InTheWay(c) == status[c] \notin NonBlocking \cup {"none"}

Blockers(i) == {c \in Carts : Holds(c, i) /\ InTheWay(c)}

BoughtInstead(c) ==
  \E d \in Carts \ {c} : item[d] = item[c] /\ item[c] # NoItem /\ status[d] = "paid"

-----------------------------------------------------------------------------
(***************************************************************************)
(* Creating a cart.                                                        *)
(***************************************************************************)
Begin(r) ==
  /\ checkout[r].at = "idle"
  /\ Goto(r, "validating")
  /\ untouched' = [untouched EXCEPT ![r] =
       {c \in Carts : InTheWay(c) \/ status[c] = "pending"}]
  /\ UNCHANGED <<status, item, click, called, replaced>>

\* The course cannot be bought: closed, full, or the learner is enrolled.
Refuse(r) ==
  /\ checkout[r].at = "validating"
  /\ Answer(r)
  /\ UNCHANGED <<status, item, click, called, replaced>>

\* check_carts_holding_item, its first query: a payment in flight is raised.
\* The code takes the cart last updated; any of them is taken here.
CheckInFlight(r) ==
  /\ checkout[r].at = "validating"
  /\ LET found == {c \in Blockers(Wanted[r]) : status[c] \in InFlight}
     IN IF found = {} THEN Goto(r, "blocking")
        ELSE \E c \in found : checkout' = [checkout EXCEPT ![r] =
               [@ EXCEPT !.at = "resolving", !.inflight = {c}, !.seen = status[c]]]
  /\ UNCHANGED <<status, item, click, called, replaced, untouched>>

\* Its second query: any other cart in the way refuses the item.
CheckBlocking(r) ==
  /\ checkout[r].at = "blocking"
  /\ IF Blockers(Wanted[r]) = {} THEN Goto(r, "listing") /\ UNCHANGED untouched ELSE Answer(r)
  /\ UNCHANGED <<status, item, click, called, replaced>>

\* Slip: a cart without its item is not listed.
ListPendingFilled(r) ==
  /\ checkout[r].at = "listing"
  /\ checkout' = [checkout EXCEPT ![r] =
       [@ EXCEPT !.at = "cancelling",
                 !.pending = {c \in Carts : status[c] = "pending" /\ item[c] # NoItem}]]
  /\ UNCHANGED <<status, item, click, called, replaced, untouched>>

\* cancel_old_pending_carts reads the pending carts, then cancels each unless
\* another request moved it first.
ListPending(r) ==
  /\ checkout[r].at = "listing"
  /\ checkout' = [checkout EXCEPT ![r] =
       [@ EXCEPT !.at = "cancelling", !.pending = {c \in Carts : status[c] = "pending"}]]
  /\ UNCHANGED <<status, item, click, called, replaced, untouched>>

CancelPending(r, c) ==
  /\ checkout[r].at = "cancelling"
  /\ c \in checkout[r].pending
  /\ ChangeStatusIfUnmoved(c, "pending", "cancelled")
  /\ replaced' = IF Moves(c, "pending", "cancelled") THEN replaced \cup {c} ELSE replaced
  /\ checkout' = [checkout EXCEPT ![r].pending = @ \ {c}]
  /\ UNCHANGED <<item, click, called>>

\* Slip: the cart is created in a status no cart has.
CreateCartOpen(r) ==
  /\ checkout[r].at = "cancelling"
  /\ checkout[r].pending = {}
  /\ status' = [status EXCEPT ![r] = "open"]
  /\ untouched' = [untouched EXCEPT ![r] = {}]
  /\ Goto(r, "filling")
  /\ UNCHANGED <<item, click, called, replaced>>

\* Not yet holding the item, which a statement of its own adds.
CreateCart(r) ==
  /\ checkout[r].at = "cancelling"
  /\ checkout[r].pending = {}
  /\ status' = [status EXCEPT ![r] = "pending"]
  /\ untouched' = [s \in Carts |-> IF s = r THEN {} ELSE untouched[s] \ {r}]
  /\ Goto(r, "filling")
  /\ UNCHANGED <<item, click, called, replaced>>

AddItem(r) ==
  /\ checkout[r].at = "filling"
  /\ item' = [item EXCEPT ![r] = Wanted[r]]
  /\ Touch(r)
  /\ Goto(r, "answered")
  /\ UNCHANGED <<status, click, called, replaced>>

\* Slip: a payment that cannot be resolved is tried again.
ResolveOpenAgain(r) ==
  /\ checkout[r].at = "resolving"
  /\ Goto(r, "validating")
  /\ UNCHANGED <<status, item, click, called, replaced, untouched>>

\* resolve_inflight_payment: the learner is sent to the waiting page, told to
\* wait while the payment session may run, or refused.
ResolveOpen(r) ==
  /\ checkout[r].at = "resolving"
  /\ Answer(r)
  /\ UNCHANGED <<status, item, click, called, replaced>>

\* No order could be asked about and the session lapsed: the cart expires, and
\* the item is validated again, unless another request moved the cart first.
ResolveLapsed(r) ==
  /\ checkout[r].at = "resolving"
  /\ checkout[r].seen = "processing"
  /\ \E c \in checkout[r].inflight :
       IF Moves(c, "processing", "expired")
       THEN ChangeStatus(c, "expired") /\ Goto(r, "validating")
       ELSE Answer(r) /\ UNCHANGED status
  /\ UNCHANGED <<item, click, called, replaced>>

\* The request dies between two of its statements.
CrashCheckout(r) ==
  /\ r \in Mortal
  /\ checkout[r].at \notin {"idle", "answered"}
  /\ Answer(r)
  /\ UNCHANGED <<status, item, click, called, replaced>>

-----------------------------------------------------------------------------
(***************************************************************************)
(* Handing a cart off.                                                     *)
(***************************************************************************)
ReadCart(h, c) ==
  /\ click[h].at = "idle"
  /\ status[c] # "none"
  /\ click' = [click EXCEPT ![h] = [at |-> "moving", carts |-> {c}, seen |-> status[c]]]
  /\ UNCHANGED <<status, item, checkout, called, replaced, untouched>>

\* The cart is moved first, and its gateway called only by the request that
\* moved it.
MoveAndCall(h) ==
  /\ click[h].at = "moving"
  /\ \E c \in click[h].carts :
       IF Moves(c, click[h].seen, "processing")
       THEN /\ ChangeStatus(c, "processing")
            /\ called' = [called EXCEPT ![c] = @ + 1]
            /\ click' = [click EXCEPT ![h] = [@ EXCEPT !.at = "calling", !.seen = "processing"]]
       ELSE /\ click' = [click EXCEPT ![h] = IdleClick]
            /\ UNCHANGED <<status, called, untouched>>
  /\ UNCHANGED <<item, checkout, replaced>>

CallSucceeds(h) ==
  /\ click[h].at = "calling"
  /\ click' = [click EXCEPT ![h] = IdleClick]
  /\ UNCHANGED <<status, item, checkout, called, replaced, untouched>>

\* The cart is closed, unless another request moved it meanwhile.
CallFails(h) ==
  /\ click[h].at = "calling"
  /\ \E c \in click[h].carts : ChangeStatusIfUnmoved(c, "processing", "closed")
  /\ click' = [click EXCEPT ![h] = IdleClick]
  /\ UNCHANGED <<item, checkout, called, replaced>>

-----------------------------------------------------------------------------
(***************************************************************************)
(* What becomes of a payment meanwhile, each a step of its own: how it     *)
(* comes about is Settlement's.                                            *)
(***************************************************************************)
GatewayAnswers(c) == status[c] = "processing" /\ ChangeStatus(c, "payment_pending")

Decline(c) == status[c] = "payment_pending" /\ ChangeStatus(c, "cancelled")

\* A success is settled, unless the cart expired and its item was bought again.
Settle(c) ==
  /\ status[c] \in Settleable
  /\ ~(status[c] = "expired" /\ BoughtInstead(c))
  /\ ChangeStatus(c, "paid")

\* A success that could not be settled is held.
Hold(c) == status[c] \in {"payment_pending", "expired"} /\ ChangeStatus(c, "unreconciled")

\* Staff accept a held payment, or record a refund.
Accept(c) == status[c] = "unreconciled" /\ ~BoughtInstead(c) /\ ChangeStatus(c, "paid")

RecordRefund(c) == status[c] \in {"paid", "unreconciled"} /\ ChangeStatus(c, "refunded")

Payment(c) ==
  /\ GatewayAnswers(c) \/ Decline(c) \/ Settle(c) \/ Hold(c) \/ Accept(c) \/ RecordRefund(c)
  /\ UNCHANGED <<item, checkout, click, called, replaced>>

-----------------------------------------------------------------------------
CheckoutStep(r) ==
  \/ Refuse(r)
  \/ CheckInFlight(r)
  \/ CheckBlocking(r)
  \/ ListPending(r)
  \/ \E c \in Carts : CancelPending(r, c)
  \/ CreateCart(r)
  \/ AddItem(r)
  \/ ResolveOpen(r)
  \/ ResolveLapsed(r)

ClickStep(h) ==
  \/ \E c \in Carts : ReadCart(h, c)
  \/ MoveAndCall(h)
  \/ CallSucceeds(h)
  \/ CallFails(h)

Next ==
  \/ \E r \in Carts : Begin(r) \/ CheckoutStep(r) \/ CrashCheckout(r)
  \/ \E h \in Clicks : ClickStep(h)
  \/ \E c \in Carts : Payment(c)

Spec == Init /\ [][Next]_vars

\* A request the server took is served; nothing makes a learner send one.
FairSpec == Spec /\ \A r \in Carts : WF_vars(CheckoutStep(r))

-----------------------------------------------------------------------------
TypeOK ==
  /\ status \in [Carts -> Statuses \cup {"none"}]
  /\ item \in [Carts -> Items \cup {NoItem}]
  /\ checkout \in [Carts -> Checkouts]
  /\ click \in [Clicks -> ClickStates]
  /\ called \in [Carts -> Nat]
  /\ replaced \subseteq Carts
  /\ untouched \in [Carts -> SUBSET Carts]

\* However many clicks and replayed URLs race each other and the requests that
\* replace carts, a gateway is called once at most for a cart, and never for
\* one that a newer cart replaced.
HandedOffOnce ==
  \A c \in Carts : called[c] <= 1 /\ (c \in replaced => called[c] = 0)

\* c holds a course that is paid for, or being paid for.
BoughtIn(c, course) ==
  /\ status[c] \in {"processing", "payment_pending", "paid", "unreconciled"}
  /\ item[c] # NoItem
  /\ CourseOf[item[c]] = course

\* No cart is created beside one that has stood in its way since before the
\* request began, whatever the request expired on its way: none that holds the
\* course, and none still pending, for whatever course -- one left behind
\* without its item, by a request that died between its two statements, is
\* replaced with the others.
NothingInTheWay ==
  [][\A r \in Carts : CreateCart(r) =>
       \A c \in untouched[r] : status[c] # "pending" /\ ~BoughtIn(c, CourseOf[Wanted[r]])]_vars

\* The carts a payment may still be begun for, or be found in flight without
\* an answer.
InPlay == {c \in Carts : status[c] \in {"none", "pending", "processing"}}

\* Each round of a request's loop takes a cart out of play, and nothing any
\* request, click or payment does brings one back: the loop has no more rounds
\* than there are carts.
RoundsRunOut ==
  [][/\ InPlay' \subseteq InPlay
     /\ \A r \in Carts :
          checkout[r].at = "resolving" /\ checkout'[r].at = "validating" => InPlay' # InPlay]_vars

\* A request is answered: however often resolving one payment leads to the
\* next, validating the item again comes to an end.
CheckoutAnswered ==
  \A r \in Carts : checkout[r].at # "idle" ~> checkout[r].at = "answered"

-----------------------------------------------------------------------------
(***************************************************************************)
(* What the code's comments promise, and requests side by side break.      *)
(***************************************************************************)

\* A learner whose payment for a course is still open is "never offered a
\* second payment for it" (views.py): a gateway is not called for it again.
OneOpenPayment ==
  \A c, d \in Carts :
    /\ status[c] \in InFlight /\ status[d] \in InFlight
    /\ item[d] # NoItem /\ Holds(c, item[d])
    => c = d

\* A payment completing after its cart expired settles it "unless the course
\* was bought again meanwhile" (models.py).
LatePaymentHeld ==
  [][\A c \in Carts :
       status[c] = "expired" /\ status'[c] = "paid"
         => \A d \in Carts \ {c} :
              item[c] # NoItem /\ Holds(d, item[c]) => status[d] # "paid"]_vars
=============================================================================
