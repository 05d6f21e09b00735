SPECIFICATION Spec
CONSTANTS
  a = a
  b = b
  d = d
  verified = verified
  professional = professional
  Carts = {a, b, d}
  Items = {verified, professional}
  NoItem = NoItem
  Wanted <- TwoModes
  CourseOf <- OneCourse
  Clicks = {h, k}
  Mortal = {a}
SYMMETRY Alike
INVARIANTS
  TypeOK
  HandedOffOnce
PROPERTIES
  NothingInTheWay
CHECK_DEADLOCK FALSE
