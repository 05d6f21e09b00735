SPECIFICATION FairSpec
CONSTANTS
  i = i
  j = j
  k = k
  l = l
  a = a
  b = b
  dev = dev
  eu = eu
  Issuers = {i, j, k, l}
  Staff = {j, l}
  Prefixes = {dev, eu}
  PrefixOf <- TwoSeries
  Carts = {a, b}
  CartOf <- IssuersCarts
  First = 2
  Legacy <- Before
  Nobody = Nobody
INVARIANTS
  TypeOK
  NoCollision
  NeverStuck
PROPERTIES
  ImplementsSeries
  IssueEnds
CHECK_DEADLOCK FALSE
