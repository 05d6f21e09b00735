----------------------------- MODULE CartStatus -----------------------------
(***************************************************************************)
(* The statuses of a cart and the moves between them: Cart.Status and      *)
(* Cart.STATUS_TRANSITIONS of models.py.  Every other module moves a cart  *)
(* only through CanMove, as the code moves one only through change_status. *)
(***************************************************************************)

\* Cart.Status.  "refund_requested" is kept by the code and written by nothing.
Statuses ==
  {"pending", "processing", "paid", "cancelled", "closed", "expired",
   "payment_pending", "unreconciled", "refund_requested", "refunded"}

\* Cart.STATUS_TRANSITIONS: every move a cart can make.
StatusTransitions ==
  {<<"pending", "processing">>,
   <<"pending", "cancelled">>,
   <<"processing", "payment_pending">>,
   <<"processing", "paid">>,
   <<"processing", "closed">>,
   <<"processing", "expired">>,
   <<"expired", "paid">>,
   <<"expired", "unreconciled">>,
   <<"payment_pending", "paid">>,
   <<"payment_pending", "cancelled">>,
   <<"payment_pending", "unreconciled">>,
   <<"paid", "refunded">>,
   <<"unreconciled", "paid">>,
   <<"unreconciled", "refunded">>}

CanMove(old, new) == <<old, new>> \in StatusTransitions

\* Cart.NON_BLOCKING_STATUSES: a cart here does not stop its learner buying
\* the same item again.
NonBlocking == {"pending", "cancelled", "closed", "expired", "refunded"}

\* The statuses record_gateway_order writes an order in, which are also those
\* check_carts_holding_item calls a payment in flight.
InFlight == {"processing", "payment_pending"}

\* The statuses process_payment_and_update_records settles a payment from.
Settleable == {"processing", "payment_pending", "expired"}
=============================================================================
