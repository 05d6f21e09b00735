SPECIFICATION Spec
CONSTANTS
  a = a
  b = b
  o1 = o1
  o2 = o2
  i1 = i1
  i2 = i2
  i3 = i3
  Carts = {a}
  Orders = {o1, o2}
  Ids = {i1, i2, i3}
  Polls = {p}
  NoOrder = NoOrder
  NoId = NoId
  CartOf <- OneCartOf
  ChargesOf <- OwnCharge
  ItemOf <- SameItem
  Mortal = {}
  Faults = {}
INVARIANTS
  OneInvoicePerCart
