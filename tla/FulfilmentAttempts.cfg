SPECIFICATION Spec
CONSTANTS
  single = single
  bundle = bundle
  x = x
  y = y
  audit = audit
  verified = verified
  professional = professional
  Carts = {single, bundle}
  Courses = {x, y}
  Modes = {audit, verified, professional}
  Bundles = {bundle}
  CoursesOf <- SharedCourse
  ModeOf <- TwoModes
  Free = {audit}
  NoMode = NoMode
  NoCart = NoCart
  Attempts = {s, t}
  Mortal = {s}
  Unsettled = {y}
  Faults = {"commit"}
INVARIANTS
  TypeOK
  SoldIsEnrolled
  ToldIsOnRecord
  HeldNeedsNoAction
PROPERTIES
  BrokenBundleUntouched
  ImplementsDelivery
