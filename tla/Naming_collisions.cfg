\* Different requests with the same id.
SPECIFICATION Spec
CONSTANTS
  Discoveries <- MCDiscoveries
  Lists <- MCLists
  Audiences <- MCAudiences
  Audience <- MCAudience
  MaxSubscriptions = 1
INVARIANT PostAnswersRequest
