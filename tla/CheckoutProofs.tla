--------------------------- MODULE CheckoutProofs ---------------------------
(***************************************************************************)
(* For any number of carts and clicks, a cart is handed off once, and none *)
(* is made past one that was in its way all along.                         *)
(***************************************************************************)
EXTENDS Checkout, TLAPS

\* A cart is created once, by its request; a cart a gateway was called for has
\* left pending for good; and a cart replaced is cancelled for good.
CreatedOnce ==
  \A r \in Carts : checkout[r].at \notin {"filling", "answered"} => status[r] = "none"

CalledHasLeft ==
  \A c \in Carts : called[c] # 0 => called[c] = 1 /\ status[c] \notin {"none", "pending"}

ReplacedIsOver == \A c \in replaced : called[c] = 0 /\ status[c] = "cancelled"

HandOffInv == TypeOK /\ CreatedOnce /\ CalledHasLeft /\ ReplacedIsOver

\* A step that moves carts out of other statuses than "none", to others than
\* "pending", reopens none, and leaves a replaced cart cancelled.
Onward ==
  \A c \in Carts :
    \/ status'[c] = status[c]
    \/ /\ status[c] \notin {"none", "cancelled"}
       /\ status'[c] \notin {"none", "pending"}

LEMMA MovesOnward ==
  ASSUME HandOffInv, NEW c, NEW old, NEW new, Moves(c, old, new), ChangeStatus(c, new)
  PROVE  Onward /\ status' \in [Carts -> Statuses \cup {"none"}]
  BY DEF HandOffInv, TypeOK, Moves, CanMove, StatusTransitions, ChangeStatus, Onward, Statuses

LEMMA TouchType ==
  ASSUME untouched \in [Carts -> SUBSET Carts], NEW c, Touch(c)
  PROVE  untouched' \in [Carts -> SUBSET Carts]
  BY DEF Touch

LEMMA IfUnmovedOnward ==
  ASSUME HandOffInv, NEW c, NEW old, NEW new, ChangeStatusIfUnmoved(c, old, new)
  PROVE  /\ Onward
         /\ status' \in [Carts -> Statuses \cup {"none"}]
         /\ untouched' \in [Carts -> SUBSET Carts]
  <1>0. untouched \in [Carts -> SUBSET Carts]
    BY DEF HandOffInv, TypeOK
  <1>1. CASE Moves(c, old, new)
    <2>1. ChangeStatus(c, new)
      BY <1>1 DEF ChangeStatusIfUnmoved
    <2>2. untouched' \in [Carts -> SUBSET Carts]
      BY <1>0, <2>1, TouchType DEF ChangeStatus
    <2> QED
      BY <1>1, <2>1, <2>2, MovesOnward
  <1>2. CASE ~Moves(c, old, new)
    BY <1>2 DEF ChangeStatusIfUnmoved, Onward, HandOffInv, TypeOK
  <1> QED
    BY <1>1, <1>2

\* What is left of the invariant when a step only moves carts onward.
LEMMA OnwardKeeps ==
  ASSUME HandOffInv, Onward, UNCHANGED <<called, replaced>>,
         \A r \in Carts : checkout'[r].at \notin {"filling", "answered"} =>
                            checkout[r].at \notin {"filling", "answered"}
  PROVE  CreatedOnce' /\ CalledHasLeft' /\ ReplacedIsOver'
  BY DEF HandOffInv, CreatedOnce, CalledHasLeft, ReplacedIsOver, Onward, TypeOK

LEMMA GotoType ==
  ASSUME TypeOK, NEW r \in Carts, NEW at, Goto(r, at),
         at \in {"idle", "validating", "blocking", "listing", "cancelling", "filling",
                 "resolving", "answered"}
  PROVE  /\ checkout' \in [Carts -> Checkouts]
         /\ checkout'[r].at = at
         /\ \A s \in Carts \ {r} : checkout'[s] = checkout[s]
  <1>1. [at |-> at, pending |-> {}, inflight |-> {}, seen |-> "pending"] \in Checkouts
    BY DEF Checkouts, Statuses
  <1> HIDE DEF Checkouts
  <1> QED
    BY <1>1 DEF TypeOK, Goto

LEMMA InitHandOff == Init => HandOffInv
  BY CheckoutAssumption
  DEF Init, HandOffInv, TypeOK, CreatedOnce, CalledHasLeft, ReplacedIsOver, Checkouts,
      ClickStates, IdleClick, Statuses

\* A request that goes on with what it read.
LEMMA RecordType ==
  ASSUME TypeOK, NEW r \in Carts, NEW at \in {"cancelling", "resolving"},
         NEW pending \in SUBSET Carts, NEW inflight \in SUBSET Carts, NEW seen \in Statuses
  PROVE  /\ [checkout[r] EXCEPT !.at = at, !.inflight = inflight, !.seen = seen] \in Checkouts
         /\ [checkout[r] EXCEPT !.at = at, !.pending = pending] \in Checkouts
         /\ [checkout[r] EXCEPT !.pending = pending] \in Checkouts
  <1>1. checkout[r] \in Checkouts
    BY DEF TypeOK
  <1> QED
    BY <1>1 DEF Checkouts

\* The steps of a request that create no cart.
LEMMA CheckoutKeeps ==
  ASSUME HandOffInv, NEW r \in Carts,
         \/ Begin(r) \/ CrashCheckout(r) \/ Refuse(r) \/ CheckInFlight(r) \/ CheckBlocking(r)
         \/ ListPending(r) \/ ResolveOpen(r) \/ ResolveLapsed(r)
  PROVE  HandOffInv'
  <1>0. TypeOK
    BY DEF HandOffInv
  <1>1. ASSUME Onward, UNCHANGED <<item, click, called, replaced>>,
               status' \in [Carts -> Statuses \cup {"none"}],
               checkout' \in [Carts -> Checkouts],
               untouched' \in [Carts -> SUBSET Carts],
               checkout[r].at \notin {"filling", "answered"} \/ checkout'[r].at = "answered",
               \A s \in Carts \ {r} : checkout'[s] = checkout[s]
        PROVE  HandOffInv'
    BY <1>0, <1>1, OnwardKeeps DEF HandOffInv, TypeOK
  <1>2. UNCHANGED status => Onward
    BY DEF Onward
  <1>3. ASSUME NEW at, Goto(r, at), UNCHANGED <<status, item, click, called, replaced>>,
               untouched' \in [Carts -> SUBSET Carts],
               checkout[r].at \notin {"filling", "answered"} \/ at = "answered",
               at \in {"validating", "blocking", "listing", "answered"}
        PROVE  HandOffInv'
    BY <1>0, <1>1, <1>2, <1>3, GotoType DEF TypeOK
  <1>4. Answer(r) => Goto(r, "answered") /\ untouched' \in [Carts -> SUBSET Carts]
    BY <1>0 DEF Answer, TypeOK
  <1>5. CASE Begin(r) \/ CrashCheckout(r) \/ Refuse(r) \/ ResolveOpen(r)
    <2>1. CASE Begin(r)
      BY <1>0, <1>3, <2>1 DEF Begin, TypeOK
    <2>2. CASE CrashCheckout(r) \/ Refuse(r) \/ ResolveOpen(r)
      BY <1>3, <1>4, <2>2 DEF CrashCheckout, Refuse, ResolveOpen
    <2> QED
      BY <1>5, <2>1, <2>2
  <1>6. CASE CheckBlocking(r)
    BY <1>0, <1>3, <1>4, <1>6 DEF CheckBlocking, TypeOK
  <1>7. CASE CheckInFlight(r)
    <2>1. CASE Goto(r, "blocking")
      BY <1>0, <1>3, <1>7, <2>1 DEF CheckInFlight, TypeOK
    <2>2. ASSUME NEW c \in Carts, status[c] \in InFlight,
                 checkout' = [checkout EXCEPT ![r] =
                   [@ EXCEPT !.at = "resolving", !.inflight = {c}, !.seen = status[c]]]
          PROVE  HandOffInv'
      <3>1. [checkout[r] EXCEPT !.at = "resolving", !.inflight = {c}, !.seen = status[c]] \in Checkouts
        <4>1. {c} \in SUBSET Carts /\ status[c] \in Statuses
          BY <2>2 DEF InFlight, Statuses
        <4> QED
          BY <1>0, <4>1, RecordType
      <3>2. /\ checkout' \in [Carts -> Checkouts]
            /\ \A s \in Carts \ {r} : checkout'[s] = checkout[s]
        BY <1>0, <2>2, <3>1 DEF TypeOK
      <3> QED
        BY <1>0, <1>1, <1>2, <1>7, <3>2 DEF CheckInFlight, TypeOK
    <2> QED
      BY <1>7, <2>1, <2>2 DEF CheckInFlight, Blockers
  <1>8. CASE ListPending(r)
    <2>1. [checkout[r] EXCEPT !.at = "cancelling", !.pending = {c \in Carts : status[c] = "pending"}]
            \in Checkouts
      <3>1. {c \in Carts : status[c] = "pending"} \in SUBSET Carts /\ "pending" \in Statuses
        BY DEF Statuses
      <3> QED
        BY <1>0, <3>1, RecordType
    <2>2. /\ checkout' \in [Carts -> Checkouts]
          /\ \A s \in Carts \ {r} : checkout'[s] = checkout[s]
      BY <1>0, <1>8, <2>1 DEF TypeOK, ListPending
    <2> QED
      BY <1>0, <1>1, <1>2, <1>8, <2>2 DEF ListPending, TypeOK
  <1>9. CASE ResolveLapsed(r)
    <2>1. PICK c \in checkout[r].inflight :
            IF Moves(c, "processing", "expired")
            THEN ChangeStatus(c, "expired") /\ Goto(r, "validating")
            ELSE Answer(r) /\ UNCHANGED status
      BY <1>9 DEF ResolveLapsed
    <2>2. CASE Moves(c, "processing", "expired")
      <3>1. Onward /\ status' \in [Carts -> Statuses \cup {"none"}]
        BY <2>1, <2>2, MovesOnward
      <3>2. untouched' \in [Carts -> SUBSET Carts]
        BY <1>0, <2>1, <2>2, TouchType DEF ChangeStatus, TypeOK
      <3>3. /\ checkout' \in [Carts -> Checkouts]
            /\ \A s \in Carts \ {r} : checkout'[s] = checkout[s]
        BY <1>0, <2>1, <2>2, GotoType
      <3> QED
        BY <1>1, <1>9, <3>1, <3>2, <3>3 DEF ResolveLapsed
    <2>3. CASE ~Moves(c, "processing", "expired")
      BY <1>3, <1>4, <1>9, <2>1, <2>3 DEF ResolveLapsed
    <2> QED
      BY <2>2, <2>3
  <1> QED
    BY <1>5, <1>6, <1>7, <1>8, <1>9

LEMMA CancelKeeps ==
  ASSUME HandOffInv, NEW r \in Carts, NEW c \in Carts, CancelPending(r, c)
  PROVE  HandOffInv'
  <1>0. TypeOK
    BY DEF HandOffInv
  <1>1. /\ Onward
        /\ status' \in [Carts -> Statuses \cup {"none"}]
        /\ untouched' \in [Carts -> SUBSET Carts]
    BY IfUnmovedOnward DEF CancelPending
  <1>2. [checkout[r] EXCEPT !.pending = checkout[r].pending \ {c}] \in Checkouts
    <2>1. checkout[r].pending \ {c} \in SUBSET Carts /\ "pending" \in Statuses
      BY <1>0 DEF TypeOK, Checkouts, Statuses
    <2> QED
      BY <1>0, <2>1, RecordType
  <1>3. /\ checkout' \in [Carts -> Checkouts]
        /\ \A s \in Carts : checkout'[s].at = checkout[s].at
    BY <1>0, <1>2 DEF TypeOK, CancelPending, Checkouts
  <1>4. TypeOK'
    BY <1>0, <1>1, <1>3 DEF TypeOK, CancelPending
  <1>5. CreatedOnce' /\ CalledHasLeft'
    BY <1>0, <1>1, <1>3 DEF HandOffInv, CreatedOnce, CalledHasLeft, Onward, CancelPending, TypeOK
  <1>6. ReplacedIsOver'
    <2>1. CASE Moves(c, "pending", "cancelled")
      BY <1>0, <2>1 DEF Moves, CancelPending, ChangeStatusIfUnmoved, ChangeStatus, HandOffInv,
         ReplacedIsOver, CalledHasLeft, TypeOK
    <2>2. CASE ~Moves(c, "pending", "cancelled")
      BY <2>2 DEF CancelPending, ChangeStatusIfUnmoved, HandOffInv, ReplacedIsOver
    <2> QED
      BY <2>1, <2>2
  <1> QED
    BY <1>4, <1>5, <1>6 DEF HandOffInv

LEMMA CreateKeeps ==
  ASSUME HandOffInv, NEW r \in Carts, CreateCart(r) \/ AddItem(r)
  PROVE  HandOffInv'
  <1>0. TypeOK
    BY DEF HandOffInv
  <1>1. CASE CreateCart(r)
    <2>1. status[r] = "none" /\ called[r] = 0 /\ r \notin replaced
      BY <1>0, <1>1 DEF CreateCart, HandOffInv, CreatedOnce, CalledHasLeft, ReplacedIsOver, TypeOK
    <2>2. /\ checkout' \in [Carts -> Checkouts]
          /\ checkout'[r].at = "filling"
          /\ \A s \in Carts \ {r} : checkout'[s] = checkout[s]
      BY <1>0, <1>1, GotoType DEF CreateCart
    <2>3. TypeOK'
      BY <1>0, <1>1, <2>2 DEF TypeOK, CreateCart, Statuses
    <2> QED
      BY <1>0, <1>1, <2>1, <2>2, <2>3
      DEF HandOffInv, CreatedOnce, CalledHasLeft, ReplacedIsOver, CreateCart, TypeOK
  <1>2. CASE AddItem(r)
    <2>1. /\ checkout' \in [Carts -> Checkouts]
          /\ checkout'[r].at = "answered"
          /\ \A s \in Carts \ {r} : checkout'[s] = checkout[s]
      BY <1>0, <1>2, GotoType DEF AddItem
    <2>2. TypeOK'
      BY <1>0, <1>2, <2>1, CheckoutAssumption DEF TypeOK, AddItem, Touch
    <2>3. Onward
      BY <1>2 DEF Onward, AddItem
    <2> QED
      BY <1>2, <2>1, <2>2, <2>3, OnwardKeeps DEF HandOffInv, AddItem
  <1> QED
    BY <1>1, <1>2

LEMMA ClickKeeps ==
  ASSUME HandOffInv, NEW h \in Clicks, ClickStep(h)
  PROVE  HandOffInv'
  <1>0. TypeOK
    BY DEF HandOffInv
  <1>1. IdleClick \in ClickStates
    BY DEF IdleClick, ClickStates, Statuses
  <1>2. ASSUME NEW c \in Carts, ReadCart(h, c)
        PROVE  HandOffInv'
    <2>1. [at |-> "moving", carts |-> {c}, seen |-> status[c]] \in ClickStates
      BY <1>0, <1>2 DEF ReadCart, TypeOK, ClickStates
    <2>2. TypeOK'
      BY <1>0, <1>2, <2>1 DEF ReadCart, TypeOK
    <2> QED
      BY <1>2, <2>2 DEF ReadCart, HandOffInv, CreatedOnce, CalledHasLeft, ReplacedIsOver
  <1>3. CASE MoveAndCall(h)
    <2>1. PICK c \in Carts :
            IF Moves(c, click[h].seen, "processing")
            THEN /\ ChangeStatus(c, "processing")
                 /\ called' = [called EXCEPT ![c] = @ + 1]
                 /\ click' = [click EXCEPT ![h] = [@ EXCEPT !.at = "calling", !.seen = "processing"]]
            ELSE /\ click' = [click EXCEPT ![h] = IdleClick]
                 /\ UNCHANGED <<status, called, untouched>>
      BY <1>0, <1>3 DEF MoveAndCall, TypeOK, ClickStates
    <2>2. CASE ~Moves(c, click[h].seen, "processing")
      <3>1. TypeOK'
        BY <1>0, <1>1, <1>3, <2>1, <2>2 DEF MoveAndCall, TypeOK
      <3> QED
        BY <1>3, <2>1, <2>2, <3>1
        DEF MoveAndCall, HandOffInv, CreatedOnce, CalledHasLeft, ReplacedIsOver
    <2>3. CASE Moves(c, click[h].seen, "processing")
      <3>1. status[c] = "pending" /\ called[c] = 0 /\ c \notin replaced
        BY <1>0, <2>3 DEF Moves, CanMove, StatusTransitions, HandOffInv, CalledHasLeft,
           ReplacedIsOver, TypeOK
      <3>2. [click[h] EXCEPT !.at = "calling", !.seen = "processing"] \in ClickStates
        BY <1>0 DEF TypeOK, ClickStates, Statuses
      <3>3. click' \in [Clicks -> ClickStates]
        BY <1>0, <2>1, <2>3, <3>2 DEF TypeOK
      <3>4. TypeOK'
        BY <1>0, <1>3, <2>1, <2>3, <3>3 DEF MoveAndCall, TypeOK, ChangeStatus, Touch, Statuses
      <3>5. status' = [status EXCEPT ![c] = "processing"] /\ called' = [called EXCEPT ![c] = @ + 1]
        BY <2>1, <2>3 DEF ChangeStatus
      <3>6. CreatedOnce'
        BY <1>0, <1>3, <3>1, <3>5 DEF MoveAndCall, HandOffInv, CreatedOnce, TypeOK
      <3>7. CalledHasLeft'
        BY <1>0, <3>1, <3>5 DEF HandOffInv, CalledHasLeft, TypeOK
      <3>8. ReplacedIsOver'
        BY <1>0, <1>3, <3>1, <3>5 DEF MoveAndCall, HandOffInv, ReplacedIsOver, TypeOK
      <3> QED
        BY <3>4, <3>6, <3>7, <3>8 DEF HandOffInv
    <2> QED
      BY <2>2, <2>3
  <1>4. CASE CallSucceeds(h)
    <2>1. TypeOK'
      BY <1>0, <1>1, <1>4 DEF CallSucceeds, TypeOK
    <2> QED
      BY <1>4, <2>1 DEF CallSucceeds, HandOffInv, CreatedOnce, CalledHasLeft, ReplacedIsOver
  <1>5. CASE CallFails(h)
    <2>1. Onward /\ status' \in [Carts -> Statuses \cup {"none"}] /\ untouched' \in [Carts -> SUBSET Carts]
      BY <1>5, IfUnmovedOnward DEF CallFails
    <2>2. TypeOK'
      BY <1>0, <1>1, <1>5, <2>1 DEF CallFails, TypeOK
    <2> QED
      BY <1>5, <2>1, <2>2, OnwardKeeps DEF CallFails, HandOffInv
  <1> QED
    BY <1>2, <1>3, <1>4, <1>5 DEF ClickStep

LEMMA PaymentKeeps ==
  ASSUME HandOffInv, NEW c \in Carts, Payment(c)
  PROVE  HandOffInv'
  <1>0. TypeOK
    BY DEF HandOffInv
  <1>1. /\ status[c] \notin {"none", "cancelled"}
        /\ \E new \in Statuses \ {"pending"} : ChangeStatus(c, new)
    BY DEF Payment, GatewayAnswers, Decline, Settle, Hold, Accept, RecordRefund, Settleable,
       Statuses
  <1>2. PICK new \in Statuses \ {"pending"} : ChangeStatus(c, new)
    BY <1>1
  <1>3. Onward /\ status' \in [Carts -> Statuses \cup {"none"}]
    BY <1>0, <1>1, <1>2 DEF ChangeStatus, Onward, TypeOK, Statuses
  <1>4. TypeOK'
    BY <1>0, <1>2, <1>3 DEF TypeOK, Payment, ChangeStatus, Touch
  <1> QED
    BY <1>3, <1>4, OnwardKeeps DEF Payment, HandOffInv

-----------------------------------------------------------------------------
LEMMA HandOffInvariant == Spec => []HandOffInv
  <1>1. ASSUME HandOffInv, [Next]_vars
        PROVE  HandOffInv'
    <2>1. CASE UNCHANGED vars
      BY <1>1, <2>1 DEF vars, HandOffInv, TypeOK, CreatedOnce, CalledHasLeft, ReplacedIsOver
    <2>2. ASSUME NEW r \in Carts, Begin(r) \/ CheckoutStep(r) \/ CrashCheckout(r)
          PROVE  HandOffInv'
      BY <1>1, <2>2, CheckoutKeeps, CancelKeeps, CreateKeeps DEF CheckoutStep
    <2> QED
      BY <1>1, <2>1, <2>2, ClickKeeps, PaymentKeeps DEF Next
  <1> QED
    BY InitHandOff, <1>1, PTL DEF Spec

\* Every variable of Checkout keeps its type.
THEOREM CheckoutTypeCorrect == Spec => []TypeOK
  <1>1. HandOffInv => TypeOK
    BY DEF HandOffInv
  <1> QED
    BY HandOffInvariant, <1>1, PTL

\* InitiatePaymentView.get moves the cart by Cart.change_status before it
\* calls the gateway: whatever tabs, replayed URLs and newer carts race it, a
\* cart is handed off once at most, and never once a newer cart replaced it.
THEOREM CartsHandedOffOnce == Spec => []HandedOffOnce
  <1>1. HandOffInv => HandedOffOnce
    BY DEF HandOffInv, CalledHasLeft, ReplacedIsOver, HandedOffOnce, TypeOK
  <1> QED
    BY HandOffInvariant, <1>1, PTL

-----------------------------------------------------------------------------
\* A request past its two queries found clear of its course every cart that
\* has not changed since it began.
PastQueries == {"listing", "cancelling"}

Clear(r, c) ==
  /\ status[c] \in {"processing", "payment_pending", "paid", "unreconciled"}
  /\ item[c] # NoItem
  => CourseOf[item[c]] # CourseOf[Wanted[r]]

ClearInv ==
  \A r \in Carts : checkout[r].at \in PastQueries => \A c \in untouched[r] : Clear(r, c)

\* A step that changes a cart touches it.
Touches ==
  \A c \in Carts :
    \/ status'[c] = status[c] /\ item'[c] = item[c]
    \/ \A r \in Carts : c \notin untouched'[r]

\* A step that takes no request past its queries, and has none count a cart as
\* unchanged that it did not before.
NoneGoesPast ==
  \A r \in Carts : checkout'[r].at \in PastQueries =>
    checkout[r].at \in PastQueries /\ untouched'[r] \subseteq untouched[r]

LEMMA StaysClear ==
  ASSUME TypeOK, ClearInv, Touches, NoneGoesPast
  PROVE  ClearInv'
  <1> SUFFICES ASSUME NEW r \in Carts, checkout'[r].at \in PastQueries, NEW c \in untouched'[r]
      PROVE  Clear(r, c)'
    BY DEF ClearInv
  <1>1. checkout[r].at \in PastQueries /\ c \in untouched[r] /\ c \in Carts
    BY DEF NoneGoesPast, TypeOK
  <1>2. Clear(r, c)
    BY <1>1 DEF ClearInv
  <1> QED
    BY <1>1, <1>2 DEF Touches, Clear

LEMMA ChangeTouches ==
  ASSUME TypeOK, NEW c, UNCHANGED item,
         (\E new : ChangeStatus(c, new)) \/ UNCHANGED <<status, untouched>>
  PROVE  Touches /\ \A r \in Carts : untouched'[r] \subseteq untouched[r]
  BY DEF ChangeStatus, Touch, Touches, TypeOK

\* A step of one request that does not take it past its queries.
LEMMA OneRequest ==
  ASSUME TypeOK, NEW r \in Carts,
         \A s \in Carts \ {r} : checkout'[s] = checkout[s] /\ untouched'[s] \subseteq untouched[s],
         \/ checkout'[r].at \notin PastQueries
         \/ checkout[r].at \in PastQueries /\ untouched'[r] \subseteq untouched[r]
  PROVE  NoneGoesPast
  BY DEF NoneGoesPast

LEMMA CheckoutStaysClear ==
  ASSUME TypeOK, ClearInv, NEW r \in Carts, Begin(r) \/ CheckoutStep(r) \/ CrashCheckout(r)
  PROVE  ClearInv'
  <1> USE DEF PastQueries
  <1>0. /\ checkout \in [Carts -> Checkouts] /\ untouched \in [Carts -> SUBSET Carts]
        /\ \A s \in Carts : checkout[s] \in Checkouts
    BY DEF TypeOK
  <1>1. UNCHANGED <<status, item>> => Touches
    BY DEF Touches
  <1>2. ASSUME NEW at, Goto(r, at)
        PROVE  checkout'[r].at = at /\ \A s \in Carts \ {r} : checkout'[s] = checkout[s]
    BY <1>0, <1>2 DEF Goto
  <1>3. ASSUME Answer(r)
        PROVE  /\ checkout'[r].at = "answered"
               /\ \A s \in Carts \ {r} : checkout'[s] = checkout[s] /\ untouched'[s] \subseteq untouched[s]
    BY <1>0, <1>2, <1>3 DEF Answer
  <1>4. CASE Begin(r)
    BY <1>0, <1>1, <1>2, <1>4, StaysClear, OneRequest DEF Begin
  <1>5. CASE CrashCheckout(r) \/ Refuse(r) \/ ResolveOpen(r)
    BY <1>1, <1>3, <1>5, StaysClear, OneRequest DEF CrashCheckout, Refuse, ResolveOpen
  <1>6. CASE CheckInFlight(r)
    <2>1. checkout'[r].at \in {"blocking", "resolving"} /\ \A s \in Carts \ {r} : checkout'[s] = checkout[s]
      <3>1. CASE Goto(r, "blocking")
        BY <1>2, <3>1
      <3>2. ASSUME NEW c, checkout' = [checkout EXCEPT ![r] =
                     [@ EXCEPT !.at = "resolving", !.inflight = {c}, !.seen = status[c]]]
            PROVE  checkout'[r].at = "resolving" /\ \A s \in Carts \ {r} : checkout'[s] = checkout[s]
        <4>1. PICK old : old = checkout[r] /\ old \in Checkouts
          BY <1>0
        <4>2. checkout'[r] = [old EXCEPT !.at = "resolving", !.inflight = {c}, !.seen = status[c]]
          BY <1>0, <3>2, <4>1
        <4>3. checkout'[r].at = "resolving"
          BY <4>1, <4>2 DEF Checkouts
        <4> QED
          BY <1>0, <3>2, <4>3
      <3> QED
        BY <1>6, <3>1, <3>2 DEF CheckInFlight
    <2> QED
      BY <1>1, <1>6, <2>1, StaysClear, OneRequest DEF CheckInFlight
  <1>7. CASE CheckBlocking(r)
    <2>1. CASE Blockers(Wanted[r]) = {}
      <3>1. \A c \in Carts : Clear(r, c)
        BY <2>1 DEF Blockers, Holds, InTheWay, NonBlocking, Clear
      <3>2. Goto(r, "listing") /\ UNCHANGED <<status, item, untouched>>
        BY <1>7, <2>1 DEF CheckBlocking
      <3> SUFFICES ASSUME NEW s \in Carts, checkout'[s].at \in PastQueries, NEW c \in untouched'[s]
          PROVE  Clear(s, c)'
        BY DEF ClearInv
      <3>3. c \in Carts /\ c \in untouched[s]
        BY <1>0, <3>2
      <3>4. Clear(s, c)
        BY <1>2, <3>1, <3>2, <3>3 DEF ClearInv
      <3> QED
        BY <3>2, <3>4 DEF Clear
    <2>2. CASE Blockers(Wanted[r]) # {}
      BY <1>1, <1>3, <1>7, <2>2, StaysClear, OneRequest DEF CheckBlocking
    <2> QED
      BY <2>1, <2>2
  <1>8. CASE ListPending(r)
    <2>1. /\ checkout[r].at \in PastQueries /\ UNCHANGED untouched
          /\ \A s \in Carts \ {r} : checkout'[s] = checkout[s]
      BY <1>0, <1>8 DEF ListPending
    <2> QED
      BY <1>1, <1>8, <2>1, StaysClear, OneRequest DEF ListPending
  <1>9. ASSUME NEW c \in Carts, CancelPending(r, c)
        PROVE  ClearInv'
    <2>1. Touches /\ \A s \in Carts : untouched'[s] \subseteq untouched[s]
      BY <1>9, ChangeTouches DEF CancelPending, ChangeStatusIfUnmoved
    <2>2. checkout[r].at \in PastQueries /\ \A s \in Carts \ {r} : checkout'[s] = checkout[s]
      BY <1>0, <1>9 DEF CancelPending
    <2> QED
      BY <2>1, <2>2, StaysClear, OneRequest
  <1>10. CASE CreateCart(r)
    <2>1. /\ checkout'[r].at = "filling" /\ Touches
          /\ \A s \in Carts \ {r} : checkout'[s] = checkout[s] /\ untouched'[s] \subseteq untouched[s]
      BY <1>0, <1>2, <1>10 DEF CreateCart, Touches, TypeOK
    <2> QED
      BY <2>1, StaysClear, OneRequest
  <1>11. CASE AddItem(r)
    <2>1. /\ checkout'[r].at = "answered" /\ Touches
          /\ \A s \in Carts \ {r} : checkout'[s] = checkout[s] /\ untouched'[s] \subseteq untouched[s]
      BY <1>0, <1>2, <1>11 DEF AddItem, Touch, Touches, TypeOK
    <2> QED
      BY <2>1, StaysClear, OneRequest
  <1>12. CASE ResolveLapsed(r)
    <2>1. PICK c \in checkout[r].inflight :
            IF Moves(c, "processing", "expired")
            THEN ChangeStatus(c, "expired") /\ Goto(r, "validating")
            ELSE Answer(r) /\ UNCHANGED status
      BY <1>12 DEF ResolveLapsed
    <2>2. CASE Moves(c, "processing", "expired")
      <3>1. Touches /\ \A s \in Carts : untouched'[s] \subseteq untouched[s]
        BY <1>12, <2>1, <2>2, ChangeTouches DEF ResolveLapsed
      <3> QED
        BY <1>2, <2>1, <2>2, <3>1, StaysClear, OneRequest
    <2>3. CASE ~Moves(c, "processing", "expired")
      BY <1>1, <1>3, <1>12, <2>1, <2>3, StaysClear, OneRequest DEF ResolveLapsed
    <2> QED
      BY <2>2, <2>3
  <1> QED
    BY <1>4, <1>5, <1>6, <1>7, <1>8, <1>9, <1>10, <1>11, <1>12 DEF CheckoutStep

LEMMA OthersStayClear ==
  ASSUME TypeOK, ClearInv,
         (\E h \in Clicks : ClickStep(h)) \/ (\E c \in Carts : Payment(c))
  PROVE  ClearInv'
  <1>1. ASSUME Touches, UNCHANGED checkout, \A r \in Carts : untouched'[r] \subseteq untouched[r]
        PROVE  ClearInv'
    BY <1>1, StaysClear DEF NoneGoesPast
  <1>2. ASSUME NEW c, UNCHANGED <<item, checkout>>,
               (\E new : ChangeStatus(c, new)) \/ UNCHANGED <<status, untouched>>
        PROVE  ClearInv'
    BY <1>1, <1>2, ChangeTouches
  <1>3. ASSUME NEW h \in Clicks, ClickStep(h)
        PROVE  ClearInv'
    BY <1>2, <1>3 DEF ClickStep, ReadCart, MoveAndCall, CallSucceeds, CallFails, ChangeStatusIfUnmoved
  <1>4. ASSUME NEW c \in Carts, Payment(c)
        PROVE  ClearInv'
    BY <1>2, <1>4 DEF Payment, GatewayAnswers, Decline, Settle, Hold, Accept, RecordRefund
  <1> QED
    BY <1>3, <1>4

LEMMA AlwaysClear == Spec => []ClearInv
  <1>1. Init => ClearInv
    BY DEF Init, ClearInv, PastQueries
  <1>2. TypeOK /\ ClearInv /\ [Next]_vars => ClearInv'
    <2>1. ASSUME ClearInv, UNCHANGED vars
          PROVE  ClearInv'
      BY <2>1 DEF vars, ClearInv, Clear
    <2> QED
      BY <2>1, CheckoutStaysClear, OthersStayClear DEF Next
  <1> QED
    BY CheckoutTypeCorrect, <1>1, <1>2, PTL DEF Spec

-----------------------------------------------------------------------------
(***************************************************************************)
(* The pending carts a request found when it began.                        *)
(***************************************************************************)
ListedInv ==
  \A r \in Carts : checkout[r].at = "cancelling" =>
    \A c \in untouched[r] : status[c] = "pending" => c \in checkout[r].pending

LEMMA StepTouches ==
  ASSUME TypeOK, [Next]_vars
  PROVE  Touches
  <1>1. UNCHANGED <<status, item>> => Touches
    BY DEF Touches
  <1>2. ASSUME NEW r \in Carts, Begin(r) \/ CheckoutStep(r) \/ CrashCheckout(r)
        PROVE  Touches
    <2>1. CASE CreateCart(r) \/ AddItem(r)
      BY <2>1 DEF CreateCart, AddItem, Touch, Touches, TypeOK
    <2>2. ASSUME NEW c \in Carts, CancelPending(r, c)
          PROVE  Touches
      BY <2>2, ChangeTouches DEF CancelPending, ChangeStatusIfUnmoved
    <2>3. CASE ResolveLapsed(r)
      BY <1>1, <2>3, ChangeTouches DEF ResolveLapsed
    <2> QED
      BY <1>1, <1>2, <2>1, <2>2, <2>3 DEF CheckoutStep, Begin, CrashCheckout, Refuse, CheckInFlight,
         CheckBlocking, ListPending, ResolveOpen
  <1>3. ASSUME NEW h \in Clicks, ClickStep(h)
        PROVE  Touches
    BY <1>1, <1>3, ChangeTouches
    DEF ClickStep, ReadCart, MoveAndCall, CallSucceeds, CallFails, ChangeStatusIfUnmoved
  <1>4. ASSUME NEW c \in Carts, Payment(c)
        PROVE  Touches
    BY <1>4, ChangeTouches DEF Payment, GatewayAnswers, Decline, Settle, Hold, Accept, RecordRefund
  <1> QED
    BY <1>1, <1>2, <1>3, <1>4 DEF Next, vars

\* What one step may do to a request about to replace carts.
LEMMA StepCancelling ==
  ASSUME TypeOK, [Next]_vars, NEW r \in Carts, checkout'[r].at = "cancelling"
  PROVE  \/ checkout'[r] = checkout[r] /\ untouched'[r] \subseteq untouched[r]
         \/ ListPending(r)
         \/ \E c \in Carts : CancelPending(r, c)
  <1>0. checkout \in [Carts -> Checkouts] /\ untouched \in [Carts -> SUBSET Carts]
    BY DEF TypeOK
  <1>1. ASSUME NEW s \in Carts, NEW at, Goto(s, at), at # "cancelling"
        PROVE  r # s /\ checkout'[r] = checkout[r]
    BY <1>0, <1>1 DEF Goto
  <1>2. ASSUME NEW s \in Carts, Answer(s)
        PROVE  r # s /\ checkout'[r] = checkout[r] /\ untouched'[r] = untouched[r]
    BY <1>0, <1>1, <1>2 DEF Answer
  <1>3. ASSUME NEW c, ChangeStatus(c, status'[c]) \/ UNCHANGED untouched
        PROVE  untouched'[r] \subseteq untouched[r]
    BY <1>0, <1>3 DEF ChangeStatus, Touch
  <1>4. ASSUME NEW c, NEW old, NEW new, ChangeStatusIfUnmoved(c, old, new)
        PROVE  untouched'[r] \subseteq untouched[r]
    BY <1>0, <1>4 DEF ChangeStatusIfUnmoved, ChangeStatus, Touch
  <1>5. ASSUME NEW s \in Carts, Begin(s) \/ CheckoutStep(s) \/ CrashCheckout(s)
        PROVE  \/ checkout'[r] = checkout[r] /\ untouched'[r] \subseteq untouched[r]
               \/ ListPending(r)
               \/ \E c \in Carts : CancelPending(r, c)
    <2>1. CASE Begin(s)
      BY <1>0, <1>1, <2>1 DEF Begin
    <2>2. CASE CrashCheckout(s) \/ Refuse(s) \/ ResolveOpen(s)
      BY <1>2, <2>2 DEF CrashCheckout, Refuse, ResolveOpen
    <2>3. CASE CheckInFlight(s)
      <3>1. CASE Goto(s, "blocking")
        BY <1>1, <2>3, <3>1 DEF CheckInFlight
      <3>2. ASSUME NEW c, checkout' = [checkout EXCEPT ![s] =
                     [@ EXCEPT !.at = "resolving", !.inflight = {c}, !.seen = status[c]]]
            PROVE  checkout'[r] = checkout[r]
        <4>1. CASE r = s
          <5>1. PICK old : old = checkout[s] /\ old \in Checkouts
            BY <1>0
          <5>2. checkout'[s] = [old EXCEPT !.at = "resolving", !.inflight = {c}, !.seen = status[c]]
            BY <1>0, <3>2, <5>1
          <5>3. checkout'[s].at = "resolving"
            BY <5>1, <5>2 DEF Checkouts
          <5> QED
            BY <4>1, <5>3
        <4>2. CASE r # s
          BY <1>0, <3>2, <4>2
        <4> QED
          BY <4>1, <4>2
      <3> QED
        BY <2>3, <3>1, <3>2 DEF CheckInFlight
    <2>4. CASE CheckBlocking(s)
      BY <1>1, <1>2, <2>4 DEF CheckBlocking
    <2>5. CASE ListPending(s)
      BY <1>0, <2>5 DEF ListPending
    <2>6. ASSUME NEW c \in Carts, CancelPending(s, c)
          PROVE  r = s \/ (checkout'[r] = checkout[r] /\ untouched'[r] \subseteq untouched[r])
      BY <1>0, <1>4, <2>6 DEF CancelPending
    <2>7. CASE CreateCart(s) \/ AddItem(s)
      BY <1>0, <1>1, <2>7 DEF CreateCart, AddItem, Touch
    <2>8. CASE ResolveLapsed(s)
      <3>1. PICK c \in checkout[s].inflight :
              IF Moves(c, "processing", "expired")
              THEN ChangeStatus(c, "expired") /\ Goto(s, "validating")
              ELSE Answer(s) /\ UNCHANGED status
        BY <2>8 DEF ResolveLapsed
      <3> QED
        BY <1>0, <1>1, <1>2, <3>1 DEF ChangeStatus, Touch
    <2> QED
      BY <1>5, <2>1, <2>2, <2>3, <2>4, <2>5, <2>6, <2>7, <2>8 DEF CheckoutStep
  <1>6. ASSUME NEW h \in Clicks, ClickStep(h)
        PROVE  checkout'[r] = checkout[r] /\ untouched'[r] \subseteq untouched[r]
    BY <1>0, <1>4, <1>6
    DEF ClickStep, ReadCart, MoveAndCall, CallSucceeds, CallFails, ChangeStatus, Touch
  <1>7. ASSUME NEW c \in Carts, Payment(c)
        PROVE  checkout'[r] = checkout[r] /\ untouched'[r] \subseteq untouched[r]
    BY <1>0, <1>7
    DEF Payment, GatewayAnswers, Decline, Settle, Hold, Accept, RecordRefund, ChangeStatus, Touch
  <1> QED
    BY <1>5, <1>6, <1>7 DEF Next, vars

LEMMA StaysListed ==
  ASSUME TypeOK, ListedInv, [Next]_vars
  PROVE  ListedInv'
  <1> SUFFICES ASSUME NEW r \in Carts, checkout'[r].at = "cancelling",
                      NEW c \in untouched'[r], status'[c] = "pending"
      PROVE  c \in checkout'[r].pending
    BY DEF ListedInv
  <1>0. Touches /\ checkout \in [Carts -> Checkouts] /\ untouched \in [Carts -> SUBSET Carts]
    BY StepTouches DEF TypeOK
  <1>1. CASE checkout'[r] = checkout[r] /\ untouched'[r] \subseteq untouched[r]
    BY <1>0, <1>1 DEF ListedInv, Touches
  <1>2. CASE ListPending(r)
    <2>1. checkout'[r] = [checkout[r] EXCEPT !.at = "cancelling",
                            !.pending = {d \in Carts : status[d] = "pending"}]
      BY <1>0, <1>2 DEF ListPending
    <2>2. c \in Carts /\ status[c] = "pending"
      BY <1>0, <1>2 DEF ListPending
    <2>3. checkout'[r].pending = {d \in Carts : status[d] = "pending"}
      BY <1>0, <2>1 DEF Checkouts
    <2> QED
      BY <2>2, <2>3
  <1>3. ASSUME NEW d \in Carts, CancelPending(r, d)
        PROVE  c \in checkout'[r].pending
    <2>1. /\ checkout[r].at = "cancelling"
          /\ checkout'[r].pending = checkout[r].pending \ {d}
          /\ untouched'[r] \subseteq untouched[r]
      BY <1>0, <1>3 DEF CancelPending, ChangeStatusIfUnmoved, ChangeStatus, Touch, Checkouts
    <2>2. c # d
      BY <1>0, <1>3
      DEF CancelPending, ChangeStatusIfUnmoved, ChangeStatus, Moves, CanMove, StatusTransitions, Touch
    <2>3. c \in untouched[r] /\ status[c] = "pending"
      BY <1>0, <2>1 DEF Touches
    <2> QED
      BY <2>1, <2>2, <2>3 DEF ListedInv
  <1> QED
    BY <1>1, <1>2, <1>3, StepCancelling

LEMMA AlwaysListed == Spec => []ListedInv
  <1>1. Init => ListedInv
    BY DEF Init, ListedInv
  <1> QED
    BY CheckoutTypeCorrect, StaysListed, <1>1, PTL DEF Spec

\* check_carts_holding_item, in its two queries, and cancel_old_pending_carts,
\* which lists the pending carts and cancels each in a statement of its own:
\* whatever payments in flight a request expired on its way, it makes no cart
\* beside one that held the course, or was pending, before the request began
\* and has not changed since, be it one left without its item.
THEOREM NothingPassed == Spec => NothingInTheWay
  <1>1. ClearInv /\ ListedInv /\ [Next]_vars =>
          [\A r \in Carts : CreateCart(r) =>
             \A c \in untouched[r] : status[c] # "pending" /\ ~BoughtIn(c, CourseOf[Wanted[r]])]_vars
    BY DEF ClearInv, Clear, PastQueries, ListedInv, CreateCart, BoughtIn
  <1> QED
    BY AlwaysClear, AlwaysListed, <1>1, PTL DEF Spec, NothingInTheWay

-----------------------------------------------------------------------------
(***************************************************************************)
(* The rounds of a request's loop.                                         *)
(***************************************************************************)
LEMMA MovesOutOfPlay ==
  ASSUME TypeOK, NEW c, NEW old, NEW new, Moves(c, old, new), ChangeStatus(c, new)
  PROVE  InPlay' \subseteq InPlay
  BY DEF TypeOK, InPlay, Moves, CanMove, StatusTransitions, ChangeStatus

LEMMA IfUnmovedOutOfPlay ==
  ASSUME TypeOK, NEW c, NEW old, NEW new, ChangeStatusIfUnmoved(c, old, new)
  PROVE  InPlay' \subseteq InPlay
  BY MovesOutOfPlay DEF ChangeStatusIfUnmoved, InPlay

LEMMA StepOutOfPlay ==
  ASSUME HandOffInv, [Next]_vars
  PROVE  InPlay' \subseteq InPlay
  <1>0. TypeOK
    BY DEF HandOffInv
  <1>1. UNCHANGED status => InPlay' \subseteq InPlay
    BY DEF InPlay
  <1>2. ASSUME NEW r \in Carts, Begin(r) \/ CheckoutStep(r) \/ CrashCheckout(r)
        PROVE  InPlay' \subseteq InPlay
    <2>1. CASE CreateCart(r)
      <3>1. status[r] = "none"
        BY <2>1 DEF CreateCart, HandOffInv, CreatedOnce
      <3> QED
        BY <1>0, <2>1, <3>1 DEF CreateCart, InPlay, TypeOK
    <2>2. ASSUME NEW c \in Carts, CancelPending(r, c)
          PROVE  InPlay' \subseteq InPlay
      BY <1>0, <2>2, IfUnmovedOutOfPlay DEF CancelPending
    <2>3. CASE ResolveLapsed(r)
      BY <1>0, <1>1, <2>3, MovesOutOfPlay DEF ResolveLapsed
    <2> QED
      BY <1>1, <1>2, <2>1, <2>2, <2>3 DEF CheckoutStep, Begin, CrashCheckout, Refuse, CheckInFlight,
         CheckBlocking, ListPending, ResolveOpen, AddItem
  <1>3. ASSUME NEW h \in Clicks, ClickStep(h)
        PROVE  InPlay' \subseteq InPlay
    BY <1>0, <1>1, <1>3, MovesOutOfPlay, IfUnmovedOutOfPlay
    DEF ClickStep, ReadCart, MoveAndCall, CallSucceeds, CallFails
  <1>4. ASSUME NEW c \in Carts, Payment(c)
        PROVE  InPlay' \subseteq InPlay
    BY <1>0, <1>4 DEF Payment, GatewayAnswers, Decline, Settle, Hold, Accept, RecordRefund,
       ChangeStatus, InPlay, TypeOK
  <1> QED
    BY <1>1, <1>2, <1>3, <1>4 DEF Next, vars

\* Only the request that expired a cart goes round again.
LEMMA RoundTakesCart ==
  ASSUME HandOffInv, [Next]_vars, NEW r \in Carts,
         checkout[r].at = "resolving", checkout'[r].at = "validating"
  PROVE  InPlay' # InPlay
  <1>0. TypeOK /\ checkout \in [Carts -> Checkouts]
    BY DEF HandOffInv, TypeOK
  <1>1. ResolveLapsed(r)
    <2>1. ASSUME NEW s \in Carts, Begin(s) \/ CheckoutStep(s) \/ CrashCheckout(s), s # r
          PROVE  checkout'[r] = checkout[r]
      BY <1>0, <2>1 DEF CheckoutStep, Begin, CrashCheckout, Refuse, CheckInFlight, CheckBlocking,
         ListPending, CancelPending, CreateCart, AddItem, ResolveOpen, ResolveLapsed, Goto, Answer
    <2>2. ~(\E c \in Carts : CancelPending(r, c))
      BY DEF CancelPending
    <2>3. ~(Begin(r) \/ Refuse(r) \/ CheckInFlight(r) \/ CheckBlocking(r) \/ ListPending(r)
            \/ CreateCart(r) \/ AddItem(r))
      BY DEF Begin, Refuse, CheckInFlight, CheckBlocking, ListPending, CreateCart, AddItem
    <2>4. ~(CrashCheckout(r) \/ ResolveOpen(r))
      BY <1>0 DEF CrashCheckout, ResolveOpen, Answer, Goto
    <2>5. (\E h \in Clicks : ClickStep(h)) \/ (\E c \in Carts : Payment(c)) => UNCHANGED checkout
      BY DEF ClickStep, ReadCart, MoveAndCall, CallSucceeds, CallFails, Payment
    <2> QED
      BY <2>1, <2>2, <2>3, <2>4, <2>5 DEF Next, vars, CheckoutStep
  <1>2. PICK c \in checkout[r].inflight :
          IF Moves(c, "processing", "expired")
          THEN ChangeStatus(c, "expired") /\ Goto(r, "validating")
          ELSE Answer(r) /\ UNCHANGED status
    BY <1>1 DEF ResolveLapsed
  <1>3. Moves(c, "processing", "expired")
    BY <1>0, <1>2 DEF Answer, Goto
  <1>4. c \in Carts
    BY <1>0 DEF Checkouts
  <1> QED
    BY <1>0, <1>2, <1>3, <1>4 DEF TypeOK, Moves, ChangeStatus, InPlay

\* The loop of create_cart_resolving_inflight_payments: a request validates
\* its item again only after it expired a cart, and no request, click or
\* payment ever brings a cart back to where it could be expired, so the loop
\* has no more rounds than the learner has carts.
THEOREM RoundsBounded == Spec => RoundsRunOut
  <1>1. HandOffInv /\ [Next]_vars =>
          [/\ InPlay' \subseteq InPlay
           /\ \A r \in Carts :
                checkout[r].at = "resolving" /\ checkout'[r].at = "validating"
                  => InPlay' # InPlay]_vars
    BY StepOutOfPlay, RoundTakesCart
  <1> QED
    BY HandOffInvariant, <1>1, PTL DEF Spec, RoundsRunOut
=============================================================================
