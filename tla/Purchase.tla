------------------------------ MODULE Purchase ------------------------------
(***************************************************************************)
(* What a cart promises, without the requests that keep the promise: it is *)
(* open until it is sold, held for a person, or void; it is sold under one *)
(* payment, which never changes afterwards; a refund ends it, under a      *)
(* reference of its own; and no gateway id serves two purposes.            *)
(* Settlement is shown to implement this specification.                    *)
(***************************************************************************)
CONSTANTS
  Carts,
  Ids,     \* what a gateway calls its payments and its refunds
  NoId

VARIABLES
  phase,    \* where the sale of a cart stands
  payment,  \* the id of the payment a cart was sold under, or NoId
  refund    \* the id of the refund recorded for a cart, or NoId

vars == <<phase, payment, refund>>

Phases == {"open", "held", "sold", "void", "refunded"}

Unused(id) == \A c \in Carts : payment[c] # id /\ refund[c] # id

Init ==
  /\ phase = [c \in Carts |-> "open"]
  /\ payment = [c \in Carts |-> NoId]
  /\ refund = [c \in Carts |-> NoId]

\* The cart is paid, and its one payment is on record in the same step.
Sell(c, id) ==
  /\ phase[c] \in {"open", "held"}
  /\ Unused(id)
  /\ phase' = [phase EXCEPT ![c] = "sold"]
  /\ payment' = [payment EXCEPT ![c] = id]
  /\ UNCHANGED refund

\* Money may have been taken that could not be settled: a person decides.
Hold(c) ==
  /\ phase[c] = "open"
  /\ phase' = [phase EXCEPT ![c] = "held"]
  /\ UNCHANGED <<payment, refund>>

\* The cart ends without a sale.
Void(c) ==
  /\ phase[c] = "open"
  /\ phase' = [phase EXCEPT ![c] = "void"]
  /\ UNCHANGED <<payment, refund>>

\* The money is given back, under an id no payment and no other refund has.
Refund(c, id) ==
  /\ phase[c] \in {"held", "sold"}
  /\ Unused(id)
  /\ phase' = [phase EXCEPT ![c] = "refunded"]
  /\ refund' = [refund EXCEPT ![c] = id]
  /\ UNCHANGED payment

Next ==
  \E c \in Carts :
    \/ Hold(c)
    \/ Void(c)
    \/ \E id \in Ids : Sell(c, id) \/ Refund(c, id)

Spec == Init /\ [][Next]_vars
=============================================================================
