SPECIFICATION PipelineSpec
CONSTANTS
  Ids <- MCIds
  Payloads <- MCPayloads
  NoHeader = NoHeader
  Unparsable = Unparsable
  RetryAfters <- MCRetryAfters
  Resets = {0, 40, 44, 47, 48, 280}
  Nows = {40, 43}
  MaxRetries = 2
  Bodies <- MCBodies
  Malformed <- MCMalformed
  Guids <- MCGuids
  Digest <- MCDigest
  Actions <- MCActions
  OtherEvents <- MCOtherEvents
  MaxGuid = 2
INVARIANTS
  MeaningIsKept
  WaitIsLongEnough
  SleepsAreObedient
  UnsignedLearnsNothing
  AdmittedIsUnderstood
  OnlyReplaysConflict
  Traceable
  SentIsWhatWasAsked
  AnswersAreDocumented
CHECK_DEADLOCK FALSE
