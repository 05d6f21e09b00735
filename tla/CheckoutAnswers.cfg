SPECIFICATION FairSpec
CONSTANTS
  a = a
  b = b
  d = d
  verified = verified
  professional = professional
  Carts = {a, b, d}
  Items = {verified, professional}
  NoItem = NoItem
  Wanted <- TwoModes
  CourseOf <- OneCourse
  Clicks = {h}
  Mortal = {}
PROPERTIES
  CheckoutAnswered
  RoundsRunOut
CHECK_DEADLOCK FALSE
