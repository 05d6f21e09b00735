---------------------------- MODULE DeliveryProofs ----------------------------
(***************************************************************************)
(* Fulfilment implements Delivery, for any carts, courses, modes and       *)
(* attempts.  SoldInv of FulfilmentProofs is the invariant: a commit       *)
(* raises what it wrote, since what an attempt wrote is below the mode     *)
(* bought or was contested, and then the learner has all of the cart.      *)
(***************************************************************************)
EXTENDS FulfilmentProofs

\* A commit delivers the cart.
LEMMA CommitDelivers ==
  ASSUME SoldInv, SoldInv', NEW a \in Attempts, Commit(a)
  PROVE  \E c \in Carts : Sale!Deliver(c)
  <1>1. /\ ProgressInv /\ attempt[a].at = "closing" /\ UNCHANGED changed
        /\ invoiced' = invoiced \cup {Cart(a)} /\ contested' = contested \cup Rivalled(a)
        /\ enrolled' = [k \in Courses |-> Holding(a, k)]
    BY DEF SoldInv, Commit
  <1>2. PICK c \in Carts : c = Cart(a)
    BY <1>1, AtMember
  <1>3. attempt[a].wrote \subseteq Granted(c) /\ Raises(attempt[a])
    BY <1>1, <1>2, AtMember DEF SoldInv, AtWork
  <1>4. \A k \in attempt[a].wrote \ (changed \cup contested) :
          enrolled[k] \in Free \cup {NoMode, ModeOf[c][k]}
    BY <1>2, <1>3 DEF Raises, Below, Unsure, Cart
  <1>5. enrolled' = [k \in Courses |->
                       IF k \in attempt[a].wrote THEN ModeOf[c][k] ELSE enrolled[k]]
    BY <1>1, <1>2 DEF Holding, Mode
  <1>6. Rivalled(a) \subseteq attempt[a].wrote
    BY DEF Rivalled
  <1>7. \A k \in Granted(c) \ changed : Sale!Has(c, k)'
    <2> SUFFICES ASSUME NEW k \in Granted(c), k \notin changed
        PROVE  Sale!Has(c, k)'
      OBVIOUS
    <2>1. \/ enrolled'[k] = ModeOf[c][k]
          \/ /\ k \in contested'
             /\ \E d \in invoiced' : k \in Granted(d) /\ enrolled'[k] = ModeOf[d][k]
      BY <1>1, <1>2 DEF SoldInv, Unsure
    <2>2. \A d \in invoiced' : [b \in Carts |-> Granted(b)][d] = Granted(d)
      BY DEF SoldInv, ProgressInv, TypeOK
    <2> QED
      BY <2>1, <2>2 DEF Sale!Has
  <1> QED
    BY <1>1, <1>2, <1>3, <1>4, <1>5, <1>6, <1>7 DEF Sale!Deliver

\* What the learner and staff do in Open edX.
LEMMA OutsideChanges ==
  ASSUME SoldInv, OpenEdxStep
  PROVE  [Sale!Next]_Sale!vars
  <1>1. ASSUME NEW k \in Unsettled, NEW mode \in Modes \cup {NoMode}, EnrolOutside(k, mode)
        PROVE  Sale!Next
    BY <1>1, FulfilmentAssumption DEF EnrolOutside, Sale!Next, Sale!Change
  <1>2. ASSUME NEW k \in Unsettled, TakeOffSale(k) \/ PutOnSale(k)
        PROVE  UNCHANGED Sale!vars
    BY <1>2 DEF TakeOffSale, PutOnSale, Sale!vars
  <1> QED
    BY <1>1, <1>2 DEF OpenEdxStep

LEMMA StepDelivers ==
  ASSUME SoldInv, [Next]_vars
  PROVE  [Sale!Next]_Sale!vars
  <1>1. ASSUME UNCHANGED vars
        PROVE  UNCHANGED Sale!vars
    BY <1>1 DEF vars, Sale!vars
  <1>2. ASSUME NEW a \in Attempts,
               \/ CheckMember(a) \/ ReadEnrolment(a) \/ Enrol(a) \/ RefuseEnrolment(a)
               \/ \E c \in Carts : Begin(a, c)
        PROVE  UNCHANGED Sale!vars
    BY <1>2, AttemptRaises DEF Sale!vars
  <1>3. ASSUME NEW a \in Attempts, Commit(a)
        PROVE  Sale!Next
    BY <1>3, SoldNext, CommitDelivers DEF Sale!Next
  <1>4. ASSUME NEW a \in Attempts, FailCommit(a) \/ RecordFailure(a) \/ Crash(a)
        PROVE  UNCHANGED Sale!vars
    BY <1>4 DEF FailCommit, RecordFailure, Crash, Sale!vars
  <1> QED
    BY <1>1, <1>2, <1>3, <1>4, OutsideChanges DEF Next, AttemptStep

\* issue_invoice_and_fulfill and enrol_or_upgrade: for any number of polls and
\* retries beside each other, whatever fails and whoever dies, a learner gets a
\* cart whole and with its invoice, or nothing; and none of it takes them out of
\* a mode that is not below the one bought, unless a cart sold in a race put
\* them there.
THEOREM FulfilmentIsDelivery == Spec => ImplementsDelivery
  <1>1. Init => Sale!Init
    BY DEF Init, Sale!Init
  <1>2. SoldInv /\ [Next]_vars => [Sale!Next]_Sale!vars
    BY StepDelivers
  <1> QED
    BY SoldAlways, <1>1, <1>2, PTL DEF Spec, ImplementsDelivery, Sale!Spec
=============================================================================
