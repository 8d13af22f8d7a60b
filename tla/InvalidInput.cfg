SPECIFICATION PipelineSpec
CONSTANTS
  Ids <- MCIds
  Payloads <- MCPayloads
  NoHeader = NoHeader
  Unparsable = Unparsable
  RetryAfters <- MCRetryAfters
  Resets = {0, 40, 44, 47, 48, 280}
  Nows = {40, 43}
  MaxRetries = 2
  Bodies <- MCBodies
  Malformed <- MCMalformed
  Guids <- MCGuids
  Digest <- MCDigest
  Actions <- MCActions
  OtherEvents <- MCOtherEvents
  MaxGuid = 2
INVARIANTS
  InvalidInputIs400
CHECK_DEADLOCK FALSE
