SPECIFICATION Spec
CONSTANTS
  a = a
  b = b
  d = d
  verified = verified
  professional = professional
  Carts = {a, d}
  Items = {verified, professional}
  NoItem = NoItem
  Wanted <- TwoModes
  CourseOf <- OneCourse
  Clicks = {h}
  Mortal = {}
PROPERTIES
  LatePaymentHeld
CHECK_DEADLOCK FALSE
