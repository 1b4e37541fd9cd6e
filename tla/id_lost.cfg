INIT ProviderInit
NEXT ProviderNext
CONSTANTS
  Api = "openai"
  Indices = {0, 2}
  LateIds = TRUE
  MaxRetries = 1
  MaxEvents = 5
INVARIANT IdentityKept
CHECK_DEADLOCK FALSE
