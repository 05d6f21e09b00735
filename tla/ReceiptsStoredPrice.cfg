SPECIFICATION Spec
CONSTANTS
  None = None
  Sites = {"siteA", "siteB"}
  Default = "siteA"
  Domains = {"a/", "a", "A", "b"}
  Hosts = {"a", "b"}
  HostOf <- TwoHosts
  Usable = {"a", "A", "b"}
  FirstDomain <- FirstDomains
  Renames <- Corrections
  Currencies = {"SAR", "IQD"}
  Exponent <- Places
  Trades = {"SAR"}
  Typed <- ThreePrices
  Seeds <- UnpricedRow
  Editions = 1
  MaxHops = 2
INVARIANTS
  SavedIsSellable
