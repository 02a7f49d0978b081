\* Billets with the same path.
SPECIFICATION Spec
CONSTANTS
  Discoveries <- MCDiscoveries
  Lists <- MCLists
  Audiences <- MCAudiences
  Audience <- MCAudience
  MaxSubscriptions = 1
INVARIANT PathServesBillet
