SPECIFICATION Spec
CONSTANTS
  a = a
  b = b
  o1 = o1
  o2 = o2
  i1 = i1
  i2 = i2
  i3 = i3
  Carts = {a, b}
  Orders = {o1, o2}
  Ids = {i1, i2, i3}
  Polls = {p}
  NoOrder = NoOrder
  NoId = NoId
  CartOf <- TwoCartsOf
  ChargesOf <- SharedCharge
  ItemOf <- SameItem
  Mortal = {p}
  Faults = {"write", "commit"}
INVARIANTS
  OneSettledPayment
PROPERTIES
  ImplementsPurchase
