SPECIFICATION Spec
CONSTANTS
  a = a
  b = b
  d = d
  verified = verified
  professional = professional
  Carts = {a, b}
  Items = {verified, professional}
  NoItem = NoItem
  Wanted <- TwoModes
  CourseOf <- OneCourse
  Clicks = {h}
  Mortal = {}
INVARIANTS
  OneOpenPayment
CHECK_DEADLOCK FALSE
