\* Discovery, lookups and subscriptions with names that need normalizing or
\* have separators in them.
SPECIFICATION Spec
CONSTANTS
  Discoveries <- MCDiscoveries
  Lists <- MCLists
  Audiences <- MCAudiences
  Audience <- MCAudience
  MaxSubscriptions = 2
INVARIANTS TypeOK AvailableOnce SubscriptionReachable OneIdPerRequest PlainRequestsOwnEntry
           SubscriptionInv
