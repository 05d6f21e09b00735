------------------------------- MODULE Delivery -------------------------------
(***************************************************************************)
(* What a sale gives a learner, without the attempts that give it: a cart  *)
(* is delivered in one step, its invoice and all its courses together; an  *)
(* enrolment is only ever raised, from none or from a mode that can be     *)
(* upgraded to the mode bought, save in a course that another cart was     *)
(* delivered in against a rival for it; and nothing short of a delivery    *)
(* changes one, but the learner and staff, who may change any outside of   *)
(* sales.  Fulfilment is shown to implement this specification.            *)
(***************************************************************************)
CONSTANTS
  Carts, Courses, Modes,
  GrantedBy,  \* the courses each cart is for
  ModeOf,     \* the mode a cart buys each course of it in
  Free,       \* the modes that can be upgraded
  NoMode      \* where the learner is not enrolled

VARIABLES
  enrolled,   \* the mode the learner holds each course in
  delivered,  \* the carts with an invoice
  changed,    \* the courses whose enrolment changed outside of sales
  contested   \* the courses delivered against a rival that buys another mode

vars == <<enrolled, delivered, changed, contested>>

Init ==
  /\ enrolled \in [Courses -> Modes \cup {NoMode}]
  /\ delivered = {}
  /\ changed = {}
  /\ contested = {}

\* The learner holds a course as cart c has it, or as another cart that was
\* delivered against a rival.
Has(c, k) ==
  \/ enrolled[k] = ModeOf[c][k]
  \/ k \in contested /\ \E d \in delivered : k \in GrantedBy[d] /\ enrolled[k] = ModeOf[d][k]

\* A cart may be delivered again, by a retry that began before it was.
Deliver(c) ==
  /\ \E raised \in SUBSET GrantedBy[c] :
       /\ \A k \in raised \ (changed \cup contested) :
            enrolled[k] \in Free \cup {NoMode, ModeOf[c][k]}
       /\ enrolled' = [k \in Courses |-> IF k \in raised THEN ModeOf[c][k] ELSE enrolled[k]]
       /\ \E rivalled \in SUBSET raised : contested' = contested \cup rivalled
  /\ delivered' = delivered \cup {c}
  /\ UNCHANGED changed
  /\ \A k \in GrantedBy[c] \ changed : Has(c, k)'

Change(k, mode) ==
  /\ enrolled' = [enrolled EXCEPT ![k] = mode]
  /\ changed' = changed \cup {k}
  /\ UNCHANGED <<delivered, contested>>

Next ==
  \/ \E c \in Carts : Deliver(c)
  \/ \E k \in Courses, mode \in Modes \cup {NoMode} : Change(k, mode)

Spec == Init /\ [][Next]_vars
=============================================================================
