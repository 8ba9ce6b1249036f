SPECIFICATION RegistrySpec
CONSTANTS
  Services = {asset}
  Interval = 2
  Timeout = 1
  RemoveAfter = 12
  Round = 6
INVARIANT RegistryTypeOK
INVARIANT ListingIsRecent
PROPERTY ListedConverges
